---- MODULE Spec2Model ----
(***************************************************************************)
(* A model of the SwiftDLC launcher (src/loader.py): the required-file     *)
(* verifier, the guava version resolver, the launch / verify / reinstall   *)
(* background sequences of LauncherWindow, and download_file and           *)
(* extract_zip_manual chunk by chunk and member by member.                 *)
(*                                                                         *)
(* File names are opaque strings in TLA+, so every basename the model uses *)
(* is given as the sequence of its lexical tokens (Tokens); the string     *)
(* operations of the code (lower(), "guava-" in ..., endswith(".jar"),     *)
(* the version regex, int()) are computed on those tokens.                 *)
(***************************************************************************)
EXTENDS Integers, Sequences, FiniteSets, TLC

VARIABLES
    fs,        \* the filesystem under CLIENT_DIR (= GAME_DIR)
    pc,        \* pc[t]: position of background thread t
    kind,      \* kind[t]: which target thread t runs
    lock,      \* holder of self._bg_lock, 0 when free
    missing,   \* missing[t]: result of the last _check_required_files of t's run
    jars,      \* jars[t]: the local list `jars` of launch_procedure
    wroteArgs, \* wroteArgs[t]: this run of t has written args.txt
    javaExec,  \* javaExec[t]: the local java_exec of launch_procedure
    proc,      \* proc[t]: outcome of subprocess.Popen / communicate in t's run
    java_path, \* self.java_path
    env,       \* JAVA_HOME / PATH of the host
    finished,  \* finished[t]: the finished(ok, msg) notifications of t's run
    events,    \* events[t]: what t's run has done and emitted so far, in order
    runs,      \* number of background threads started so far
    rIn,       \* resolver harness: the argument of _filter_guava_keep_latest
    rOut,      \* resolver harness: its return value
    rDone,     \* resolver harness: the call has returned
    vCalls,    \* verifier harness: results of the successive calls
    rs         \* restore harness: download_file followed by extract_zip_manual

vars == <<fs, pc, kind, lock, missing, jars, wroteArgs, javaExec, proc, java_path,
          env, finished, events, runs, rIn, rOut, rDone, vCalls, rs>>

threadVars == <<pc, kind, missing, jars, wroteArgs, javaExec, proc, finished, events>>
launcherVars == <<threadVars, lock, java_path, env, runs>>
resolverVars == <<rIn, rOut, rDone>>
harnessVars == <<resolverVars, vCalls, rs>>

-----------------------------------------------------------------------------
(* Bounds *)

MaxJars == 3        \* longest artifact list given to the resolver harness
MaxThreads == 2     \* background threads alive at once
MaxRuns == 2        \* background threads started in one behaviour
MaxCalls == 2       \* consecutive verifier calls in the verifier harness

-----------------------------------------------------------------------------
(* Lexical tokens of file names *)

W(s) == [k |-> "w", s |-> s, d |-> <<>>]
N(d) == [k |-> "n", s |-> "", d |-> d]
Dash == [k |-> "-", s |-> "", d |-> <<>>]
Dot == [k |-> ".", s |-> "", d |-> <<>>]

Tokens(name) ==
    CASE name = "guava-19.0.jar" -> <<W("guava"), Dash, N(<<1, 9>>), Dot, N(<<0>>), Dot, W("jar")>>
      [] name = "guava-30.1.1.jar" -> <<W("guava"), Dash, N(<<3, 0>>), Dot, N(<<1>>), Dot, N(<<1>>), Dot, W("jar")>>
      [] name = "guava-2.9.jar" -> <<W("guava"), Dash, N(<<2>>), Dot, N(<<9>>), Dot, W("jar")>>
      [] name = "guava-2.10.jar" -> <<W("guava"), Dash, N(<<2>>), Dot, N(<<1, 0>>), Dot, W("jar")>>
      [] name = "guava-1.2.jar" -> <<W("guava"), Dash, N(<<1>>), Dot, N(<<2>>), Dot, W("jar")>>
      [] name = "guava-1.2.0.jar" -> <<W("guava"), Dash, N(<<1>>), Dot, N(<<2>>), Dot, N(<<0>>), Dot, W("jar")>>
      [] name = "Guava-31.0.jar" -> <<W("Guava"), Dash, N(<<3, 1>>), Dot, N(<<0>>), Dot, W("jar")>>
      [] name = "guava-0.jar" -> <<W("guava"), Dash, N(<<0>>), Dot, W("jar")>>
      [] name = "guava-testlib-19.0.jar" -> <<W("guava"), Dash, W("testlib"), Dash, N(<<1, 9>>), Dot, N(<<0>>), Dot, W("jar")>>
      [] name = "asm-9.1.jar" -> <<W("asm"), Dash, N(<<9>>), Dot, N(<<1>>), Dot, W("jar")>>
      [] name = "asm-9.2.jar" -> <<W("asm"), Dash, N(<<9>>), Dot, N(<<2>>), Dot, W("jar")>>
      [] name = "1.16.5.jar" -> <<N(<<1>>), Dot, N(<<1, 6>>), Dot, N(<<5>>), Dot, W("jar")>>
      [] name = "readme.txt" -> <<W("readme"), Dot, W("txt")>>
      [] name = "java.exe" -> <<W("java"), Dot, W("exe")>>
      [] OTHER -> <<W(name)>>

\* str.lower() on a word
Lower(s) ==
    CASE s = "Guava" -> "guava"
      [] OTHER -> s

\* fn.endswith(".jar")
EndsWithJar(name) ==
    LET t == Tokens(name)
    IN  /\ Len(t) >= 2
        /\ t[Len(t) - 1] = Dot
        /\ t[Len(t)] = W("jar")

\* "guava-" in os.path.basename(j).lower()
ContainsGuavaDash(name) ==
    LET t == Tokens(name)
    IN  \E i \in 1..(Len(t) - 1) :
            /\ t[i].k = "w"
            /\ Lower(t[i].s) = "guava"
            /\ t[i + 1] = Dash

\* a comparison of the digit strings by their first character
DigitsToInt_FirstDigit(d) == IF d = <<>> THEN 0 ELSE d[1]

\* int(p) for a string of decimal digits
RECURSIVE DigitsToInt(_)
DigitsToInt(d) ==
    IF d = <<>> THEN 0
    ELSE 10 * DigitsToInt(SubSeq(d, 1, Len(d) - 1)) + d[Len(d)]

\* the greedy tail (?:\.[0-9]+)* of the version regex, read from position i
RECURSIVE VersionTail(_, _)
VersionTail(t, i) ==
    IF i + 1 <= Len(t) /\ t[i] = Dot /\ t[i + 1].k = "n"
    THEN <<DigitsToInt(t[i + 1].d)>> \o VersionTail(t, i + 2)
    ELSE <<>>

\* positions where re.search(r"guava-([0-9]+(?:\.[0-9]+)*)", IGNORECASE) can match
GuavaMatches(t) ==
    {i \in 1..(Len(t) - 2) :
        /\ t[i].k = "w"
        /\ Lower(t[i].s) = "guava"
        /\ t[i + 1] = Dash
        /\ t[i + 2].k = "n"}

SetMin(S) == CHOOSE x \in S : \A y \in S : x <= y

\* _extract_version_tuple_from_name: the first match's dotted number as a tuple
\* of ints, (0,) when the regex does not match
ExtractVersionTuple(name) ==
    LET t == Tokens(name)
        m == GuavaMatches(t)
    IN  IF m = {} THEN <<0>>
        ELSE LET i == SetMin(m)
             IN  <<DigitsToInt(t[i + 2].d)>> \o VersionTail(t, i + 3)

-----------------------------------------------------------------------------
(* Paths: sequences of components relative to GAME_DIR = CLIENT_DIR *)

VersionJar == <<"swiftdlc", "game", "versions", "1.16.5", "1.16.5.jar">>
LibrariesDir == <<"swiftdlc", "game", "libraries">>

\* os.path.basename
BaseName(p) == p[Len(p)]

\* os.path.dirname
Parent(p) == SubSeq(p, 1, Len(p) - 1)

IsPrefix(p, q) == Len(p) <= Len(q) /\ SubSeq(q, 1, Len(p)) = p

-----------------------------------------------------------------------------
(* The version resolver *)

\* Python's tuple ordering a < b: the first differing component decides, and a
\* proper prefix is smaller
RECURSIVE TupleLess(_, _)
TupleLess(a, b) ==
    IF b = <<>> THEN FALSE
    ELSE IF a = <<>> THEN TRUE
    ELSE IF a[1] # b[1] THEN a[1] < b[1]
    ELSE TupleLess(Tail(a), Tail(b))

\* the sort key of line 259
VersionKey(p) == ExtractVersionTuple(BaseName(p))

\* one insertion of a stable descending sort: x goes behind every element whose
\* key is not smaller than its own
RECURSIVE InsertDesc(_, _)
InsertDesc(s, x) ==
    IF s = <<>> THEN <<x>>
    ELSE IF TupleLess(VersionKey(s[1]), VersionKey(x)) THEN <<x>> \o s
    ELSE <<s[1]>> \o InsertDesc(Tail(s), x)

\* sorted(guavas, key=..., reverse=True): stable, equal keys keep input order
RECURSIVE SortedDesc(_)
SortedDesc(s) ==
    IF s = <<>> THEN <<>>
    ELSE InsertDesc(SortedDesc(SubSeq(s, 1, Len(s) - 1)), s[Len(s)])

IsGuava(p) == ContainsGuavaDash(BaseName(p))
NotGuava(p) == ~IsGuava(p)

\* the filter taking the first guava of the list for the latest
FilterGuava_KeepFirst(js) ==
    LET guavas == SelectSeq(js, IsGuava)
    IN  IF guavas = <<>> THEN js
        ELSE Append(SelectSeq(js, NotGuava), guavas[1])

\* the filter dropping repeated paths on its way
RECURSIVE DropRepeats(_)
DropRepeats(js) ==
    IF js = <<>> THEN <<>>
    ELSE LET front == DropRepeats(SubSeq(js, 1, Len(js) - 1))
             x == js[Len(js)]
         IN  IF \E i \in DOMAIN front : front[i] = x THEN front ELSE Append(front, x)

FilterGuava_Dedup(js) ==
    LET guavas == SelectSeq(js, IsGuava)
    IN  IF guavas = <<>> THEN DropRepeats(js)
        ELSE Append(SelectSeq(DropRepeats(js), NotGuava), SortedDesc(guavas)[1])

\* the filter leaving the latest guava where it stood in the list
FilterGuava_InPlace(js) ==
    LET guavas == SelectSeq(js, IsGuava)
        KeepIt(p) == NotGuava(p) \/ p = SortedDesc(guavas)[1]
    IN  IF guavas = <<>> THEN js ELSE SelectSeq(js, KeepIt)

\* _filter_guava_keep_latest
FilterGuavaKeepLatest(js) ==
    LET guavas == SelectSeq(js, IsGuava)
    IN  IF guavas = <<>> THEN js
        ELSE LET sorted_guavas == SortedDesc(guavas)
                 latest == sorted_guavas[1]
             IN  Append(SelectSeq(js, NotGuava), latest)

-----------------------------------------------------------------------------
(* The filesystem under CLIENT_DIR = GAME_DIR = C:\penjs.  The archive        *)
(* (CLIENT_ZIP_PATH), the extraction marker and args.txt lie in that         *)
(* directory too and are kept as fields of their own.                        *)

NoArgs == [exists |-> FALSE, cp |-> <<>>, lines |-> <<>>]

EmptyFs ==
    [root |-> FALSE, dirs |-> {}, files |-> {}, zip |-> "none", marker |-> FALSE,
     args |-> NoArgs]

\* os.path.isdir
IsDir(f, p) ==
    /\ f.root
    /\ \/ p = <<>>
       \/ p \in f.dirs
       \/ \E q \in f.files \cup f.dirs : IsPrefix(p, q) /\ p # q

IsFile(f, p) == f.root /\ p \in f.files

\* os.path.exists
Exists(f, p) == IsFile(f, p) \/ IsDir(f, p)

\* os.path.exists(CLIENT_ZIP_PATH)
ZipExists(f) == f.root /\ f.zip # "none"

\* safe_makedirs of CLIENT_DIR itself
MakeRoot(f) == [f EXCEPT !.root = TRUE]

\* the files os.walk(p) visits
FilesUnder(f, p) == {q \in f.files : f.root /\ IsPrefix(p, q) /\ p # q}

-----------------------------------------------------------------------------
(* The required-file verifier *)

REQUIRED_PATHS == <<VersionJar, <<"swiftdlc", "libraries">>>>

\* rel.endswith(("swiftdlc", "game", "libraries")): the string ends with one of
\* the three; every component of the model's paths is compared as a whole
EndsWithAny(rel, suffixes) == BaseName(rel) \in suffixes

MissingItem(p, note) == [path |-> p, note |-> note]

\* the loop body looking for jars in the libraries directory itself only
CheckOne_TopLevelOnly(f, rel) ==
    IF EndsWithAny(rel, {"swiftdlc", "game", "libraries"})
    THEN IF ~IsDir(f, LibrariesDir)
         THEN <<MissingItem(LibrariesDir, "")>>
         ELSE IF \E q \in FilesUnder(f, LibrariesDir) :
                    Parent(q) = LibrariesDir /\ EndsWithJar(BaseName(q))
              THEN <<>>
              ELSE <<MissingItem(LibrariesDir, " (no jars)")>>
    ELSE IF ~Exists(f, rel) THEN <<MissingItem(rel, "")>> ELSE <<>>

\* the body of the loop over REQUIRED_PATHS (lines 754-780)
CheckOne(f, rel) ==
    IF EndsWithAny(rel, {"swiftdlc", "game", "libraries"})
    THEN IF ~IsDir(f, LibrariesDir)
         THEN <<MissingItem(LibrariesDir, "")>>
         ELSE IF \E q \in FilesUnder(f, LibrariesDir) : EndsWithJar(BaseName(q))
              THEN <<>>
              ELSE <<MissingItem(LibrariesDir, " (no jars)")>>
    ELSE IF ~Exists(f, rel) THEN <<MissingItem(rel, "")>> ELSE <<>>

RECURSIVE CheckAll(_, _)
CheckAll(f, rels) ==
    IF rels = <<>> THEN <<>>
    ELSE CheckOne(f, Head(rels)) \o CheckAll(f, Tail(rels))

\* the explicit version-jar check behind the loop (lines 782-786)
CheckVersionJar(f) ==
    IF ~Exists(f, VersionJar) THEN <<MissingItem(VersionJar, "")>> ELSE <<>>

\* _check_required_files: the list `missing` it returns
CheckRequiredFiles(f) == CheckAll(f, REQUIRED_PATHS) \o CheckVersionJar(f)

\* the filesystem as mkdir of the libraries directory would leave it
WithLibrariesDir(f) == [f EXCEPT !.root = TRUE, !.dirs = @ \cup {LibrariesDir}]

\* a verifier that creates the libraries directory it looks for
FsAfterCheck_Mkdir(f) == WithLibrariesDir(f)

\* the filesystem after _check_required_files: it only reads (isdir, exists, walk)
FsAfterCheck(f) == f

-----------------------------------------------------------------------------
(* The resolver harness: one call of _filter_guava_keep_latest on every     *)
(* artifact list of at most MaxJars entries over ArtifactUniverse           *)

HarnessNames ==
    {"guava-19.0.jar", "guava-30.1.1.jar", "guava-2.9.jar", "guava-2.10.jar",
     "guava-1.2.jar", "guava-1.2.0.jar", "Guava-31.0.jar", "guava-0.jar",
     "guava-testlib-19.0.jar", "asm-9.1.jar"}

ArtifactUniverse ==
    {<<n>> : n \in HarnessNames \cup {"asm-9.2.jar"}}
        \cup {LibrariesDir \o <<"guava-30.1.1.jar">>, LibrariesDir \o <<"asm-9.1.jar">>}

SeqsUpTo(S, n) == UNION {[1..k -> S] : k \in 0..n}

ResolveCall ==
    /\ ~rDone
    /\ rOut' = FilterGuavaKeepLatest(rIn)
    /\ rDone' = TRUE
    /\ UNCHANGED <<rIn, fs, vCalls, launcherVars, rs>>

-----------------------------------------------------------------------------
(* The verifier harness: MaxCalls consecutive calls of _check_required_files *)
(* on every filesystem over HarnessFiles                                     *)

HarnessFiles ==
    {VersionJar,
     LibrariesDir \o <<"asm-9.1.jar">>,
     LibrariesDir \o <<"google", "guava-30.1.1.jar">>,
     LibrariesDir \o <<"readme.txt">>,
     <<"guava-19.0.jar">>}

HarnessFs ==
    {EmptyFs} \cup
    {[root |-> TRUE, dirs |-> d, files |-> F, zip |-> "none", marker |-> FALSE,
      args |-> NoArgs] : d \in SUBSET {LibrariesDir}, F \in SUBSET HarnessFiles}

VerifyCall ==
    /\ Len(vCalls) < MaxCalls
    /\ vCalls' = Append(vCalls, [before |-> fs,
                                 result |-> CheckRequiredFiles(fs),
                                 after |-> FsAfterCheck(fs)])
    /\ fs' = FsAfterCheck(fs)
    /\ UNCHANGED <<launcherVars, resolverVars, rs>>

-----------------------------------------------------------------------------
(* Archives: what CLIENT_ZIP_PATH can hold.  "corrupt" is a file that is no  *)
(* readable zip (a truncated download, an error page).                       *)

BundledJava == <<"jre", "bin", "java.exe">>

Bundles == {"full", "nolibs"}

BundleFiles(b) ==
    CASE b = "full" ->
            {VersionJar,
             LibrariesDir \o <<"asm-9.1.jar">>,
             LibrariesDir \o <<"google", "guava-30.1.1.jar">>,
             <<"guava-19.0.jar">>,
             BundledJava}
      [] b = "nolibs" -> {VersionJar, LibrariesDir \o <<"readme.txt">>}
      [] OTHER -> {}

\* os.walk(CLIENT_DIR) order of every file of the model: a directory's files
\* before its subdirectories
WalkSeq ==
    <<<<"guava-19.0.jar">>,
      BundledJava,
      LibrariesDir \o <<"asm-9.1.jar">>,
      LibrariesDir \o <<"readme.txt">>,
      LibrariesDir \o <<"google", "guava-30.1.1.jar">>,
      VersionJar>>

RECURSIVE WalkJars(_, _, _)
WalkJars(f, p, order) ==
    IF order = <<>> THEN <<>>
    ELSE LET q == Head(order)
             rest == WalkJars(f, p, Tail(order))
         IN  IF q \in FilesUnder(f, p) /\ EndsWithJar(BaseName(q))
             THEN <<q>> \o rest
             ELSE rest

\* a download that opens the destination file before it looks at the status
DownloadFs_OpenFirst(f, o) ==
    IF o \in {"status", "broken"} THEN [MakeRoot(f) EXCEPT !.zip = "corrupt"]
    ELSE [MakeRoot(f) EXCEPT !.zip = o]

\* download_file (lines 155-182): the result and the filesystem it leaves.
\* "status": raise_for_status failed, nothing opened; "broken": the stream
\* failed after open(dest_path, "wb"); otherwise the body that was stored.
DownloadOutcomes == {"status", "broken", "corrupt"} \cup Bundles

DownloadOk(o) == o \notin {"status", "broken"}

DownloadFs(f, o) ==
    IF o = "status" THEN MakeRoot(f)
    ELSE IF o = "broken" THEN [MakeRoot(f) EXCEPT !.zip = "corrupt"]
    ELSE [MakeRoot(f) EXCEPT !.zip = o]

\* extract_zip_manual (lines 184-233): ZipFile() raises on a missing or
\* unreadable archive; entries in `bad` cannot be written and are skipped
ExtractOk(f) == f.root /\ f.zip \in Bundles

ExtractFs(f, bad) ==
    IF ExtractOk(f)
    THEN [f EXCEPT !.files = @ \cup (BundleFiles(f.zip) \ bad),
                   !.dirs = @ \cup {Parent(q) : q \in BundleFiles(f.zip)},
                   !.marker = TRUE]
    ELSE f

UnwritableChoices == {{}, {VersionJar}}

\* a removal that sets the installed files aside and leaves them in place
RemoveClient_KeepFiles(f) == [f EXCEPT !.zip = "none", !.marker = FALSE]

\* safe_remove_dir(CLIENT_DIR) followed by os.remove(CLIENT_ZIP_PATH)
RemoveClient(f) == EmptyFs

\* a collection that begins with the version jar
CollectJars_VersionFirst(f) ==
    (IF Exists(f, VersionJar) THEN <<VersionJar>> ELSE <<>>)
        \o (IF IsDir(f, LibrariesDir) THEN WalkJars(f, LibrariesDir, WalkSeq) ELSE <<>>)
        \o (IF IsDir(f, <<>>) THEN WalkJars(f, <<>>, WalkSeq) ELSE <<>>)

\* lines 829-844: library jars, the version jar, then every jar under CLIENT_DIR
CollectJars(f) ==
    (IF IsDir(f, LibrariesDir) THEN WalkJars(f, LibrariesDir, WalkSeq) ELSE <<>>)
        \o (IF Exists(f, VersionJar) THEN <<VersionJar>> ELSE <<>>)
        \o (IF IsDir(f, <<>>) THEN WalkJars(f, <<>>, WalkSeq) ELSE <<>>)

\* find_java_executable: bundled jre/jdk, then JAVA_HOME / JDK_HOME, then PATH
FindJavaExecutable(f, e) ==
    IF IsDir(f, <<>>) /\ Exists(f, BundledJava) THEN "bundled"
    ELSE IF e.home THEN "home"
    ELSE IF e.which THEN "which"
    ELSE ""

\* os.path.exists(java_exec)
JavaExists(f, e, j) ==
    CASE j = "cfg_good" -> TRUE
      [] j = "bundled" -> Exists(f, BundledJava)
      [] j = "home" -> e.home
      [] j = "which" -> e.which
      [] OTHER -> FALSE

\* `a or b` on strings
OrElse(a, b) == IF a # "" THEN a ELSE b

-----------------------------------------------------------------------------
(* Background threads: _background starts one daemon thread per click *)

Threads == 1..MaxThreads

Msg(ok, text, items) == [ok |-> ok, text |-> text, items |-> items]

\* a thread that has not started or has ended leaves its slot to the next one
FreeSlots == {u \in Threads : pc[u] \in {"idle", "done"}}

\* threading.Thread(target=wrapper).start(): the new thread takes the lowest
\* free slot and starts from fresh locals
StartThread(t, k, entry) ==
    /\ t \in FreeSlots
    /\ \A u \in FreeSlots : t <= u
    /\ runs < MaxRuns
    /\ runs' = runs + 1
    /\ kind' = [kind EXCEPT ![t] = k]
    /\ pc' = [pc EXCEPT ![t] = entry]
    /\ missing' = [missing EXCEPT ![t] = <<>>]
    /\ jars' = [jars EXCEPT ![t] = <<>>]
    /\ wroteArgs' = [wroteArgs EXCEPT ![t] = FALSE]
    /\ javaExec' = [javaExec EXCEPT ![t] = ""]
    /\ proc' = [proc EXCEPT ![t] = "none"]
    /\ finished' = [finished EXCEPT ![t] = <<>>]
    /\ events' = [events EXCEPT ![t] = <<>>]
    /\ UNCHANGED <<fs, lock, java_path, env, harnessVars>>

\* on_launch_clicked: self._background(self.launch_procedure)
OnLaunchClicked(t) == StartThread(t, "launch", "l_lock")

\* on_verify_clicked with dlg.action == "verify"
OnVerifyChosen(t) == StartThread(t, "verify", "v_start")

\* on_verify_clicked with dlg.action == "reinstall"
OnReinstallChosen(t) == StartThread(t, "reinstall", "r_remove")

\* a lock that stays with the thread that took it
Released_Held(l, t, label) == l

\* leaving the `with self._bg_lock:` block (line 796) by a return or by an
\* exception releases the lock when this thread holds it
Released(l, t, label) == IF l = t /\ label = "done" THEN 0 ELSE l

\* on_finished_emit(ok, msg) after the steps and notifications evs, the run
\* going on at `label`
FinishTo(t, evs, m, label) ==
    /\ finished' = [finished EXCEPT ![t] = Append(@, m)]
    /\ events' = [events EXCEPT ![t] = @ \o evs \o <<"finished">>]
    /\ pc' = [pc EXCEPT ![t] = label]
    /\ lock' = Released(lock, t, label)
    /\ jars' = [jars EXCEPT ![t] = <<>>]

\* on_finished_emit(ok, msg) as the last statement of a run
Finish(t, evs, m) == FinishTo(t, evs, m, "done")

Goto(t, evs, label) ==
    /\ pc' = [pc EXCEPT ![t] = label]
    /\ events' = [events EXCEPT ![t] = @ \o evs]
    /\ UNCHANGED <<finished, lock, jars>>

\* with self._bg_lock: (line 796)
L_Acquire(t) ==
    /\ pc[t] = "l_lock"
    /\ lock = 0
    /\ lock' = t
    /\ pc' = [pc EXCEPT ![t] = "l_check"]
    /\ UNCHANGED <<fs, kind, missing, jars, wroteArgs, javaExec, proc, finished,
                   events, java_path, env, runs, harnessVars>>

\* a restore that fetches the archive whether or not a local one exists
AfterCheck_AlwaysFetch(m, f) == IF m # <<>> THEN "l_download" ELSE "l_collect"

\* a restore that fetches again when the local archive cannot be read
AfterCheck_RefetchUnreadable(m, f) ==
    IF m # <<>>
    THEN IF ZipExists(f) /\ f.zip \in Bundles THEN "l_extract_local" ELSE "l_download"
    ELSE "l_collect"

\* a restore that is made whatever the check returned
AfterCheck_AlwaysRestore(m, f) == IF ZipExists(f) THEN "l_extract_local" ELSE "l_download"

\* where launch_procedure goes after the first check (lines 799-826)
AfterCheck(m, f) ==
    IF m # <<>>
    THEN IF ZipExists(f) THEN "l_extract_local" ELSE "l_download"
    ELSE "l_collect"

\* lines 797-803 and 825-826 as steps and notifications: the status
\* "Preparing launch...", the check, the status that tells its result and,
\* with items missing, what os.path.exists(CLIENT_ZIP_PATH) gave
CheckEvents(m, f) ==
    <<"status", "check", "status">>
        \o (IF m = <<>> THEN <<>>
            ELSE IF ZipExists(f) THEN <<"zip_exists">> ELSE <<"zip_absent">>)

\* lines 797-802 and 825-826
L_Check(t) ==
    /\ pc[t] = "l_check"
    /\ missing' = [missing EXCEPT ![t] = CheckRequiredFiles(fs)]
    /\ fs' = FsAfterCheck(fs)
    /\ Goto(t, CheckEvents(CheckRequiredFiles(fs), fs),
            AfterCheck(CheckRequiredFiles(fs), fs))
    /\ UNCHANGED <<kind, wroteArgs, javaExec, proc, java_path, env, runs,
                   harnessVars>>

\* download_file as steps and notifications: raise_for_status raises before
\* anything is received; a stream that breaks has emitted progress before;
\* the except clause emits the status "Download failed: ..."
DownloadEvents(o) ==
    <<"fetch">>
        \o (CASE o = "status" -> <<"http_error", "status", "fetch_failed">>
              [] o = "broken" -> <<"progress", "stream_error", "status", "fetch_failed">>
              [] OTHER -> <<"progress", "status">>)

\* extract_zip_manual as steps and notifications: progress and the status
\* "Extracting i/n" per entry, nothing when ZipFile() raises
ExtractEvents(f) ==
    <<"extract">> \o (IF ExtractOk(f) THEN <<"progress", "status">> ELSE <<"extract_failed">>)

\* a failed download that is reported but not returned from
AfterDownloadFailed_FallsThrough == "l_extract"

\* line 811: `return` after on_finished_emit(False, "Download failed")
AfterDownloadFailed == "done"

\* lines 808-812
L_Download(t) ==
    /\ pc[t] = "l_download"
    /\ \E o \in DownloadOutcomes :
          /\ fs' = DownloadFs(fs, o)
          /\ IF DownloadOk(o)
             THEN Goto(t, DownloadEvents(o), "l_extract")
             ELSE FinishTo(t, DownloadEvents(o), Msg(FALSE, "Download failed", <<>>),
                           AfterDownloadFailed)
    /\ UNCHANGED <<kind, missing, wroteArgs, javaExec, proc, java_path, env,
                   runs, harnessVars>>

\* lines 803-806 and 813-816
L_Extract(t) ==
    /\ pc[t] \in {"l_extract_local", "l_extract"}
    /\ \E bad \in UnwritableChoices :
          /\ fs' = ExtractFs(fs, bad)
          /\ IF ExtractOk(fs)
             THEN Goto(t, ExtractEvents(fs), "l_recheck")
             ELSE Finish(t, ExtractEvents(fs),
                         Msg(FALSE,
                             IF pc[t] = "l_extract_local"
                             THEN "Extraction from local archive failed"
                             ELSE "Extraction failed", <<>>))
    /\ UNCHANGED <<kind, missing, wroteArgs, javaExec, proc, java_path, env,
                   runs, harnessVars>>

\* a re-check whose result is not acted on
AfterRecheck_Ignored(m2) == "l_collect"

\* where launch_procedure goes after the re-check (lines 819-824)
AfterRecheck(m2) == IF m2 # <<>> THEN "failed" ELSE "l_collect"

\* a failure message that tells how many items are missing and not which
StillMissingMsg_CountOnly(m2) == Msg(FALSE, "Still missing", <<>>)

\* line 821: "Still missing N items after extraction:\n" + "\n".join(missing2)
StillMissingMsg(m2) == Msg(FALSE, "Still missing", m2)

\* lines 817-824
L_Recheck(t) ==
    /\ pc[t] = "l_recheck"
    /\ missing' = [missing EXCEPT ![t] = CheckRequiredFiles(fs)]
    /\ fs' = FsAfterCheck(fs)
    /\ IF AfterRecheck(CheckRequiredFiles(fs)) = "failed"
       THEN Finish(t, <<"recheck">>, StillMissingMsg(CheckRequiredFiles(fs)))
       ELSE Goto(t, <<"recheck">>, AfterRecheck(CheckRequiredFiles(fs)))
    /\ UNCHANGED <<kind, wroteArgs, javaExec, proc, java_path, env, runs,
                   harnessVars>>

\* java looked up before the args file is written
AfterCollect_JavaFirst == "l_java"

\* the args file is written (lines 855-877) before java is looked up (879-883)
AfterCollect == "l_args"
AfterWriteArgs == "l_java"
AfterFindJava == "l_spawn"

\* lines 828-854
L_Collect(t) ==
    /\ pc[t] = "l_collect"
    /\ jars' = [jars EXCEPT ![t] = FilterGuavaKeepLatest(CollectJars(fs))]
    /\ pc' = [pc EXCEPT ![t] = AfterCollect]
    /\ events' = [events EXCEPT ![t] = Append(@, "collect")]
    /\ UNCHANGED <<fs, kind, missing, wroteArgs, finished, lock, javaExec, proc, java_path, env,
                   runs, harnessVars>>

\* self.memory_gb and self.username as config.json without these keys gives
\* them (lines 319-320)
MemoryGb == 4
Username == "Player"

\* a line of args.txt: an option or a class name, with the number, the text
\* or the path list that follows it on the line
ArgLine(opt, num, text, paths) == [opt |-> opt, num |-> num, text |-> text, paths |-> paths]

\* the eleven af.write calls of lines 861-872; the classpath line is the
\* artifact list joined by os.pathsep
ArgsLines(mem, user, cp) ==
    <<ArgLine("-Xmx", mem * 1024, "m", <<>>),
      ArgLine("--enable-native-access=ALL-UNNAMED", 0, "", <<>>),
      ArgLine("-cp", 0, "", <<>>),
      ArgLine("", 0, "", cp),
      ArgLine("net.minecraft.client.main.Main", 0, "", <<>>),
      ArgLine("--version", 0, "1.16.5", <<>>),
      ArgLine("--gameDir", 0, "", <<<<>>>>),
      ArgLine("--assetsDir", 0, "", <<<<"swiftdlc", "game", "assets">>>>),
      ArgLine("--assetIndex", 0, "1.16", <<>>),
      ArgLine("--username", 0, user, <<>>),
      ArgLine("--accessToken", 0, "0", <<>>)>>

\* an args file opened for appending
ArgsFile_Appended(old, cp, lines) ==
    [exists |-> TRUE, cp |-> cp, lines |-> old.lines \o lines]

\* open(args_path, "w") (line 859): what was there is gone
ArgsFile(old, cp, lines) == [exists |-> TRUE, cp |-> cp, lines |-> lines]

\* lines 855-877: safe_makedirs, then open(args_path, "w") and the writes; the
\* open may raise (a locked or read-only file), leaving the file as it was
L_WriteArgs(t) ==
    /\ pc[t] = "l_args"
    /\ \E ok \in BOOLEAN :
          IF ok
          THEN /\ fs' = [MakeRoot(fs) EXCEPT
                            !.args = ArgsFile(@, jars[t], ArgsLines(MemoryGb, Username, jars[t]))]
               /\ wroteArgs' = [wroteArgs EXCEPT ![t] = TRUE]
               /\ Goto(t, <<"args", "status">>, AfterWriteArgs)
          ELSE /\ fs' = MakeRoot(fs)
               /\ UNCHANGED wroteArgs
               /\ Finish(t, <<"args_failed">>, Msg(FALSE, "Failed to write args.txt", <<>>))
    /\ UNCHANGED <<kind, missing, javaExec, proc, java_path, env, runs,
                   harnessVars>>

\* lines 879-883
L_FindJava(t) ==
    /\ pc[t] = "l_java"
    /\ LET java_exec == OrElse(java_path, FindJavaExecutable(fs, env))
       IN  /\ javaExec' = [javaExec EXCEPT ![t] = java_exec]
           /\ IF java_exec = "" \/ ~JavaExists(fs, env, java_exec)
              THEN Finish(t, <<"java">>, Msg(FALSE, "Java not found", <<>>))
              ELSE Goto(t, <<"java">>, AfterFindJava)
    /\ UNCHANGED <<fs, kind, missing, wroteArgs, proc, java_path, env, runs,
                   harnessVars>>

\* line 886 reads the local `cmd` in an f-string; its only assignment is line
\* 898, so the name is unbound there
CmdBoundAtLog == FALSE

\* what Popen / communicate can give: Popen raises, or an exit status
ProcOutcomes == {"raised", "exit0", "exit1"}

\* lines 885-917, and the except clause of _background.wrapper (706-709) for
\* the exception that line 886 raises: the status "Error: ..." and then
\* on_finished_emit(False, str(e))
L_Spawn(t) ==
    /\ pc[t] = "l_spawn"
    /\ IF CmdBoundAtLog
       THEN \E o \in ProcOutcomes :
               /\ proc' = [proc EXCEPT ![t] = o]
               /\ Finish(t, <<"status", "spawn">>,
                         CASE o = "exit0" -> Msg(TRUE, "Client finished successfully.", <<>>)
                           [] o = "exit1" -> Msg(FALSE, "Launch failed with exit code", <<1>>)
                           [] OTHER -> Msg(FALSE, "Launch failed", <<>>))
       ELSE /\ UNCHANGED proc
            /\ Finish(t, <<"exception", "status">>, Msg(FALSE, "UnboundLocalError", <<>>))
    /\ UNCHANGED <<fs, kind, missing, wroteArgs, javaExec, java_path, env, runs,
                   harnessVars>>

\* count_files_in_archive: the non-directory entries, 0 when unreadable
CountFilesInArchive(f) ==
    IF f.root /\ f.zip \in Bundles THEN Cardinality(BundleFiles(f.zip)) ELSE 0

\* count_files_in_folder(CLIENT_DIR): every file, the archive, the marker and
\* args.txt among them
CountFilesInFolder(f) ==
    IF ~f.root THEN 0
    ELSE Cardinality(f.files) + (IF f.zip # "none" THEN 1 ELSE 0)
            + (IF f.marker THEN 1 ELSE 0) + (IF f.args.exists THEN 1 ELSE 0)

\* line 717
V_Start(t) ==
    /\ pc[t] = "v_start"
    /\ Goto(t, <<"status">>, "v_count")
    /\ UNCHANGED <<fs, kind, missing, wroteArgs, javaExec, proc, java_path, env,
                   runs, harnessVars>>

\* lines 718-727
V_Count(t) ==
    /\ pc[t] = "v_count"
    /\ IF ZipExists(fs)
       THEN IF CountFilesInFolder(fs) >= CountFilesInArchive(fs)
            THEN Finish(t, <<"status">>, Msg(TRUE, "Verification OK", <<>>))
            ELSE Finish(t, <<"status">>, Msg(FALSE, "Client incomplete vs archive", <<>>))
       ELSE Finish(t, <<>>, Msg(FALSE, "No archive available for verification", <<>>))
    /\ UNCHANGED <<fs, kind, missing, wroteArgs, javaExec, proc, java_path, env,
                   runs, harnessVars>>

\* lines 730-736
R_Remove(t) ==
    /\ pc[t] = "r_remove"
    /\ fs' = RemoveClient(fs)
    /\ Goto(t, <<"status", "remove">>, "r_download")
    /\ UNCHANGED <<kind, missing, wroteArgs, javaExec, proc, java_path, env,
                   runs, harnessVars>>

\* lines 738-741
R_Download(t) ==
    /\ pc[t] = "r_download"
    /\ \E o \in DownloadOutcomes :
          /\ fs' = DownloadFs(fs, o)
          /\ IF DownloadOk(o)
             THEN Goto(t, DownloadEvents(o), "r_extract")
             ELSE Finish(t, DownloadEvents(o), Msg(FALSE, "Download failed", <<>>))
    /\ UNCHANGED <<kind, missing, wroteArgs, javaExec, proc, java_path, env,
                   runs, harnessVars>>

\* lines 742-746
R_Extract(t) ==
    /\ pc[t] = "r_extract"
    /\ \E bad \in UnwritableChoices :
          /\ fs' = ExtractFs(fs, bad)
          /\ IF ExtractOk(fs)
             THEN Finish(t, ExtractEvents(fs), Msg(TRUE, "Reinstall complete", <<>>))
             ELSE Finish(t, ExtractEvents(fs), Msg(FALSE, "Extraction failed", <<>>))
    /\ UNCHANGED <<kind, missing, wroteArgs, javaExec, proc, java_path, env,
                   runs, harnessVars>>

-----------------------------------------------------------------------------
(* The restore harness: download_file and extract_zip_manual step by step,   *)
(* one chunk and one archive member at a time, on a directory tree of its    *)
(* own with file contents.  Paths are relative to the target directory,      *)
(* which exists.  A chunk is the unit of length.                             *)

MaxEntries == 3     \* most members of an archive of the restore harness
MaxChunks == 2      \* most chunks of a response body of the restore harness

ZipEntry(name, dir) == [name |-> name, dir |-> dir]

\* the members an archive of the harness is made of: a directory entry, three
\* files, a file whose name is a directory of the others, and a file named
\* ../guava-19.0.jar
EntryUniverse ==
    {ZipEntry(<<"swiftdlc">>, TRUE),
     ZipEntry(VersionJar, FALSE),
     ZipEntry(LibrariesDir \o <<"asm-9.1.jar">>, FALSE),
     ZipEntry(<<"guava-19.0.jar">>, FALSE),
     ZipEntry(<<"swiftdlc">>, FALSE),
     ZipEntry(<<"..", "guava-19.0.jar">>, FALSE)}

\* os.path.normpath(os.path.join(target_dir, name_norm)), relative to the
\* target directory: a ".." takes the component before it away, and stays
\* where none is left, which is a path outside the target directory
RECURSIVE NormPath(_)
NormPath(p) ==
    IF p = <<>> THEN <<>>
    ELSE LET front == NormPath(Parent(p))
             c == BaseName(p)
         IN  IF c # ".." THEN Append(front, c)
             ELSE IF front # <<>> /\ front[Len(front)] # ".." THEN Parent(front)
             ELSE Append(front, c)

FileOf(p, data) == [path |-> p, data |-> data]

\* what the target directory holds before: nothing, or a version jar of an
\* earlier installation
TreeChoices == {{}, {FileOf(VersionJar, "old")}}

\* the plans of the harness: the restore of lines 809-813 (and 738-742), and
\* two calls of extract_zip_manual in a row
Plans == {<<"download", "extract">>, <<"extract", "extract">>}

Prefixes(p) == {SubSeq(p, 1, k) : k \in 1..Len(p)}

HasFile(F, p) == \E r \in F : r.path = p

\* os.makedirs(p, exist_ok=True) under safe_makedirs: the directories are made
\* from the top down until one of them is a file; the error is only logged
MakeDirs(F, D, p) ==
    D \cup {q \in Prefixes(p) : \A q2 \in Prefixes(q) : ~HasFile(F, q2)}

\* open(p, "wb") succeeds: with or without the long-path prefix it is the same
\* file, so the second attempt fails where the first did
CanOpen(F, D, bad, p) ==
    /\ p \notin bad
    /\ p \notin D
    /\ Parent(p) = <<>> \/ Parent(p) \in D

WriteFile(F, p, data) == {r \in F : r.path # p} \cup {FileOf(p, data)}

\* int(n / total * 100); the float product is the integer quotient for every
\* n and total of the harness
Percent(n, total) == (n * 100) \div total

\* total = len(members) or 1
TotalOf(members) == IF Len(members) = 0 THEN 1 ELSE Len(members)

\* an extraction that gives up at the first member it cannot write
NextIndex_StopOnFailure(r, ok) == IF ok THEN r.i + 1 ELSE Len(r.members) + 1

\* the loop goes on to the next member whether or not the write succeeded
\* (lines 204-208 only log)
NextIndex(r, ok) == r.i + 1

\* one turn of the loop over the members (lines 191-217)
ExtractEntry(r, e) ==
    LET target == NormPath(e.name)
        dirs1 == MakeDirs(r.files, r.dirs, Parent(target))
        ok == CanOpen(r.files, dirs1, r.bad, target)
        n == r.extracted + 1
    IN  IF e.dir
        THEN [r EXCEPT !.dirs = dirs1, !.i = @ + 1]
        ELSE [r EXCEPT !.dirs = dirs1,
                       !.files = IF ok THEN WriteFile(@, target, "new") ELSE @,
                       !.failed = IF ok THEN @ ELSE @ \cup {target},
                       !.extracted = n,
                       !.progress = Append(@, Percent(n, TotalOf(r.members))),
                       !.i = NextIndex(r, ok)]

NoMarker == [exists |-> FALSE, text |-> <<>>]

\* a marker file opened for appending
MarkerWritten_Append(m) == [exists |-> TRUE, text |-> Append(m.text, "ok")]

\* open(marker, "w") and m.write("ok") (lines 219-223)
MarkerWritten(m) == [exists |-> TRUE, text |-> <<"ok">>]

Snapshot(r, ret) ==
    [ret |-> ret, files |-> r.files, dirs |-> r.dirs, marker |-> r.marker]

\* the call returns `ret`; the caller makes the next call of its plan, the
\* restore only after a download that returned True (lines 810-813)
Return(r, ret) ==
    LET r1 == [r EXCEPT !.rets = Append(@, ret),
                        !.snaps = IF r.plan[r.call] = "extract"
                                  THEN Append(@, Snapshot(r, ret)) ELSE @]
    IN  IF r.call < Len(r.plan) /\ (ret \/ r.plan[r.call] = "extract")
        THEN [r1 EXCEPT !.call = @ + 1,
                        !.pc = IF r.plan[r.call + 1] = "download" THEN "d_get" ELSE "x_open"]
        ELSE [r1 EXCEPT !.pc = "end"]

RestoreFrame == UNCHANGED <<fs, launcherVars, resolverVars, vCalls>>

\* lines 158-163: requests.get, raise_for_status, the content-length header,
\* then open(dest_path, "wb"), which empties the file
D_Get ==
    /\ rs.pc = "d_get"
    /\ rs' = IF rs.http_ok
             THEN [rs EXCEPT !.zip = "partial", !.downloaded = 0, !.pc = "d_chunk"]
             ELSE Return(rs, FALSE)
    /\ RestoreFrame

\* lines 164-173: one chunk written and counted; progress only with a
\* content-length; an exception of the stream leaves what was written
D_Chunk ==
    /\ rs.pc = "d_chunk"
    /\ rs.downloaded < rs.body
    /\ rs' = IF rs.breakAt = rs.downloaded + 1
             THEN Return(rs, FALSE)
             ELSE [rs EXCEPT !.downloaded = @ + 1,
                             !.progress = IF rs.advertised # 0
                                          THEN Append(@, Percent(rs.downloaded + 1, rs.advertised))
                                          ELSE @]
    /\ RestoreFrame

\* lines 174-177: the stream has ended, "Download complete", return True
D_End ==
    /\ rs.pc = "d_chunk"
    /\ rs.downloaded = rs.body
    /\ rs' = Return([rs EXCEPT !.zip = "whole"], TRUE)
    /\ RestoreFrame

\* lines 186-190: ZipFile() raises on a file that is no archive (231-233)
X_Open ==
    /\ rs.pc = "x_open"
    /\ rs' = IF rs.zip = "whole"
             THEN [rs EXCEPT !.i = 1, !.extracted = 0, !.pc = "x_entry"]
             ELSE Return(rs, FALSE)
    /\ RestoreFrame

\* lines 191-217
X_Entry ==
    /\ rs.pc = "x_entry"
    /\ rs.i <= Len(rs.members)
    /\ rs' = ExtractEntry(rs, rs.members[rs.i])
    /\ RestoreFrame

\* lines 218-226
X_Marker ==
    /\ rs.pc = "x_entry"
    /\ rs.i > Len(rs.members)
    /\ rs' = Return([rs EXCEPT !.marker = MarkerWritten(@)], TRUE)
    /\ RestoreFrame

-----------------------------------------------------------------------------
(* Specifications *)

\* the filesystems the launcher can find at start-up
InstalledFs(b, z) ==
    [root |-> TRUE, dirs |-> {Parent(q) : q \in BundleFiles(b)}, files |-> BundleFiles(b),
     zip |-> z, marker |-> b \in Bundles, args |-> NoArgs]

InitFs ==
    {EmptyFs,
     InstalledFs("nothing", "full"), InstalledFs("nothing", "corrupt"),
     InstalledFs("full", "none"), InstalledFs("full", "full"),
     InstalledFs("nolibs", "nolibs")}

\* the host and config.json: java on JAVA_HOME or on PATH or nowhere, and
\* config.get("java_path") unset, an existing executable, or a stale path
JavaSetups ==
    {[cfg |-> "", home |-> FALSE, which |-> FALSE],
     [cfg |-> "", home |-> TRUE, which |-> FALSE],
     [cfg |-> "", home |-> FALSE, which |-> TRUE],
     [cfg |-> "cfg_good", home |-> FALSE, which |-> FALSE],
     [cfg |-> "cfg_bad", home |-> TRUE, which |-> FALSE]}

\* the restore harness before and outside its runs
RestoreOff == [pc |-> "off"]

InitHarnessIdle ==
    /\ rs = RestoreOff
    /\ rIn = <<>>
    /\ rOut = <<>>
    /\ rDone = FALSE
    /\ vCalls = <<>>

InitThreads ==
    /\ pc = [t \in Threads |-> "idle"]
    /\ kind = [t \in Threads |-> "none"]
    /\ lock = 0
    /\ missing = [t \in Threads |-> <<>>]
    /\ jars = [t \in Threads |-> <<>>]
    /\ wroteArgs = [t \in Threads |-> FALSE]
    /\ javaExec = [t \in Threads |-> ""]
    /\ proc = [t \in Threads |-> "none"]
    /\ finished = [t \in Threads |-> <<>>]
    /\ events = [t \in Threads |-> <<>>]
    /\ runs = 0

\* LauncherWindow.__init__ (lines 318-338)
Init ==
    /\ fs \in InitFs
    /\ \E j \in JavaSetups :
          /\ env = [home |-> j.home, which |-> j.which]
          /\ java_path = OrElse(j.cfg, FindJavaExecutable(fs, env))
    /\ InitThreads
    /\ InitHarnessIdle

Next ==
    \E t \in Threads :
        \/ OnLaunchClicked(t)
        \/ OnVerifyChosen(t)
        \/ OnReinstallChosen(t)
        \/ L_Acquire(t)
        \/ L_Check(t)
        \/ L_Download(t)
        \/ L_Extract(t)
        \/ L_Recheck(t)
        \/ L_Collect(t)
        \/ L_WriteArgs(t)
        \/ L_FindJava(t)
        \/ L_Spawn(t)
        \/ V_Start(t)
        \/ V_Count(t)
        \/ R_Remove(t)
        \/ R_Download(t)
        \/ R_Extract(t)

Spec == Init /\ [][Next]_vars

\* the places of launch_procedure a thread can be at
LaunchLabels ==
    {"l_lock", "l_check", "l_download", "l_extract_local", "l_extract", "l_recheck",
     "l_collect", "l_args", "l_java", "l_spawn"}

\* thread t is in launch_procedure and can take its next step: it is not
\* waiting for a lock that another thread holds
LaunchReady(t) ==
    /\ kind[t] = "launch"
    /\ pc[t] \in LaunchLabels
    /\ pc[t] = "l_lock" => lock = 0

\* thread t, ready, goes on to another place of launch_procedure or to its end;
\* under Next these are the steps L_Acquire(t) .. L_Spawn(t)
Resume(t) ==
    /\ LaunchReady(t)
    /\ \E l \in (LaunchLabels \cup {"done"}) \ {pc[t]} : pc' = [pc EXCEPT ![t] = l]

\* the launcher with threads that go on running: a started launch thread is
\* scheduled again and again, the fetch, the extraction and the external
\* process return, and threading.Lock hands a free lock to a waiting thread
SpecLive == Init /\ [][Next]_vars /\ \A t \in Threads : WF_pc(Resume(t))

\* one call of the resolver on each bounded artifact list
InitResolve ==
    /\ fs = EmptyFs
    /\ env = [home |-> FALSE, which |-> FALSE]
    /\ java_path = ""
    /\ InitThreads
    /\ rIn \in SeqsUpTo(ArtifactUniverse, MaxJars)
    /\ rOut = <<>>
    /\ rDone = FALSE
    /\ vCalls = <<>>
    /\ rs = RestoreOff

NextResolve == ResolveCall

SpecResolve == InitResolve /\ [][NextResolve]_vars

\* consecutive verifier calls on each bounded filesystem
InitVerify ==
    /\ fs \in HarnessFs
    /\ env = [home |-> FALSE, which |-> FALSE]
    /\ java_path = ""
    /\ InitThreads
    /\ InitHarnessIdle

NextVerify == VerifyCall

SpecVerify == InitVerify /\ [][NextVerify]_vars

\* the responses of the server: an error status, or a body of 1..MaxChunks
\* chunks with no content-length or one of 1..MaxChunks, the stream whole or
\* breaking at one of its chunks
Responses ==
    {[http_ok |-> FALSE, body |-> 1, advertised |-> 0, breakAt |-> 0]}
        \cup {r \in {[http_ok |-> TRUE, body |-> b, advertised |-> a, breakAt |-> k] :
                         b \in 1..MaxChunks, a \in 0..MaxChunks, k \in 0..MaxChunks} :
                 r.breakAt <= r.body}

NoResponse == [http_ok |-> FALSE, body |-> 0, advertised |-> 0, breakAt |-> 0]

\* a plan of the harness on each archive, tree and response
InitRestore ==
    /\ fs = EmptyFs
    /\ env = [home |-> FALSE, which |-> FALSE]
    /\ java_path = ""
    /\ InitThreads
    /\ rIn = <<>>
    /\ rOut = <<>>
    /\ rDone = FALSE
    /\ vCalls = <<>>
    /\ \E plan \in Plans, members \in SeqsUpTo(EntryUniverse, MaxEntries),
          tree \in TreeChoices, bad \in UnwritableChoices,
          resp \in Responses \cup {NoResponse}, zip \in {"none", "whole", "corrupt"} :
          /\ plan[1] = "download" => resp \in Responses /\ zip = "none"
          /\ plan[1] = "extract" => resp = NoResponse /\ zip # "none"
          /\ rs = [pc |-> IF plan[1] = "download" THEN "d_get" ELSE "x_open",
                   plan |-> plan, call |-> 1, members |-> members, zip |-> zip,
                   files0 |-> tree, files |-> tree,
                   dirs |-> UNION {Prefixes(Parent(r.path)) : r \in tree}, marker |-> NoMarker,
                   bad |-> bad, failed |-> {},
                   http_ok |-> resp.http_ok, body |-> resp.body,
                   advertised |-> resp.advertised, breakAt |-> resp.breakAt,
                   downloaded |-> 0, i |-> 1, extracted |-> 0,
                   progress |-> <<>>, rets |-> <<>>, snaps |-> <<>>]

NextRestore == D_Get \/ D_Chunk \/ D_End \/ X_Open \/ X_Entry \/ X_Marker

SpecRestore == InitRestore /\ [][NextRestore]_vars

-----------------------------------------------------------------------------
(* Properties *)

Last(q) == q[Len(q)]

LaunchDone(t) == kind[t] = "launch" /\ pc[t] = "done" /\ finished[t] # <<>>

\* C1: a launch run is past verification (collecting, assembling the plan,
\* looking up java, spawning), has written args.txt or has spawned the process
\* only if the last _check_required_files of that run returned an empty list
C1_PlanOnlyWhenVerified ==
    \A t \in Threads :
        (/\ kind[t] = "launch"
         /\ \/ pc[t] \in {"l_collect", "l_args", "l_java", "l_spawn"}
            \/ wroteArgs[t]
            \/ proc[t] # "none")
        => missing[t] = <<>>

C1_Witness ==
    \E t \in Threads :
        kind[t] = "launch" /\ wroteArgs[t] /\ fs.args.exists /\ fs.marker /\ missing[t] = <<>>

\* C2: at most one background sequence (launch, verify, reinstall) is executing
\* at any time; a thread waiting for the guard is not executing
Executing(t) == pc[t] \notin {"idle", "done", "l_lock"}

C2_AtMostOneSequence == Cardinality({t \in Threads : Executing(t)}) <= 1

\* C3: a launch run that wrote args.txt and found a usable java spawns the
\* process and finishes with success exactly when the exit status is 0
C3_SpawnsAndReportsExit ==
    \A t \in Threads :
        (/\ LaunchDone(t)
         /\ wroteArgs[t]
         /\ javaExec[t] # ""
         /\ Last(finished[t]).text # "Java not found")
        => /\ proc[t] # "none"
           /\ Last(finished[t]).ok <=> proc[t] = "exit0"

NoUsableJava(t) ==
    \/ javaExec[t] \in {"", "cfg_bad"}
    \/ javaExec[t] = "home" /\ ~env.home
    \/ javaExec[t] = "which" /\ ~env.which

-----------------------------------------------------------------------------
(* The resolver's claims are stated against the versions and library names   *)
(* of the harness's file names as written out here, not as the model parses  *)
(* them.                                                                     *)

\* the dotted version of a guava artifact, <<>> for any other file name
NamedVersion(name) ==
    CASE name = "guava-19.0.jar" -> <<19, 0>>
      [] name = "guava-30.1.1.jar" -> <<30, 1, 1>>
      [] name = "guava-2.9.jar" -> <<2, 9>>
      [] name = "guava-2.10.jar" -> <<2, 10>>
      [] name = "guava-1.2.jar" -> <<1, 2>>
      [] name = "guava-1.2.0.jar" -> <<1, 2, 0>>
      [] name = "Guava-31.0.jar" -> <<31, 0>>
      [] name = "guava-0.jar" -> <<0>>
      [] OTHER -> <<>>

\* the name part before the dotted version
NamedLibrary(name) ==
    CASE name \in {"asm-9.1.jar", "asm-9.2.jar"} -> "asm"
      [] name = "guava-testlib-19.0.jar" -> "guava-testlib"
      [] OTHER -> "guava"

NamesWithGuavaDash == HarnessNames \ {"asm-9.1.jar"}

IsVersionedGuava(p) == NamedVersion(BaseName(p)) # <<>>

VersionOf(p) == NamedVersion(BaseName(p))

At(v, i) == IF i <= Len(v) THEN v[i] ELSE 0

MaxOf(a, b) == IF a >= b THEN a ELSE b

\* per-component comparison with the shorter tuple zero-padded
PaddedLess(a, b) ==
    \E i \in 1..MaxOf(Len(a), Len(b)) :
        /\ At(a, i) < At(b, i)
        /\ \A j \in 1..(i - 1) : At(a, j) = At(b, j)

\* per-component comparison where, of two versions that agree after padding,
\* the one with more components is the greater
UnpaddedLess(a, b) ==
    \/ PaddedLess(a, b)
    \/ ~PaddedLess(b, a) /\ Len(a) < Len(b)

\* C5: with two or more guava artifacts at versions v1 < v2 in the input, the
\* output holds exactly one guava artifact and no guava of the input has a
\* higher version
C5_OnlyHighestGuavaKept ==
    (/\ rDone
     /\ \E i, j \in DOMAIN rIn :
           /\ IsVersionedGuava(rIn[i])
           /\ IsVersionedGuava(rIn[j])
           /\ PaddedLess(VersionOf(rIn[i]), VersionOf(rIn[j])))
    => /\ Cardinality({k \in DOMAIN rOut : BaseName(rOut[k]) \in NamesWithGuavaDash}) = 1
       /\ \E k \in DOMAIN rOut :
             /\ IsVersionedGuava(rOut[k])
             /\ \E i \in DOMAIN rIn : rIn[i] = rOut[k]
             /\ \A i \in DOMAIN rIn :
                   IsVersionedGuava(rIn[i])
                   => ~PaddedLess(VersionOf(rOut[k]), VersionOf(rIn[i]))

C5_Witness ==
    /\ rDone
    /\ rIn = <<<<"guava-30.1.1.jar">>, <<"asm-9.1.jar">>, <<"guava-19.0.jar">>>>
    /\ rOut = <<<<"asm-9.1.jar">>, <<"guava-30.1.1.jar">>>>

\* C6: an input without any artifact of the guava pattern is returned unchanged
C6_NoGuavaUnchanged ==
    (rDone /\ \A i \in DOMAIN rIn : BaseName(rIn[i]) \notin NamesWithGuavaDash)
    => rOut = rIn

C6_Witness ==
    /\ rDone
    /\ rIn = <<<<"asm-9.2.jar">>, <<"asm-9.1.jar">>, <<"asm-9.2.jar">>>>
    /\ rOut = rIn

TwoVersionedGuavas ==
    /\ rDone
    /\ Len(rIn) = 2
    /\ IsVersionedGuava(rIn[1])
    /\ IsVersionedGuava(rIn[2])

\* C7 as claimed: of two guava versions the second of the list is kept exactly
\* when it is the greater by zero-padded per-component comparison, so 2.10
\* beats 2.9 and 1.2.0 and 1.2 tie (the first of the list stays)
C7_PaddedOrdering ==
    TwoVersionedGuavas
    => rOut = <<IF PaddedLess(VersionOf(rIn[1]), VersionOf(rIn[2])) THEN rIn[2] ELSE rIn[1]>>

\* C7 as amended: the second is kept exactly when it is the greater by
\* per-component integer comparison without padding, so 2.10 beats 2.9 and
\* 1.2.0 beats 1.2
C7_UnpaddedOrdering ==
    TwoVersionedGuavas
    => rOut = <<IF UnpaddedLess(VersionOf(rIn[1]), VersionOf(rIn[2])) THEN rIn[2] ELSE rIn[1]>>

C7_Witness ==
    /\ rDone
    /\ rIn = <<<<"guava-1.2.jar">>, <<"guava-1.2.0.jar">>>>
    /\ rOut = <<<<"guava-1.2.0.jar">>>>

\* C8: every logical library of the input is still represented in the output
C8_LibraryStaysRepresented ==
    rDone =>
        \A i \in DOMAIN rIn :
            \E k \in DOMAIN rOut :
                NamedLibrary(BaseName(rOut[k])) = NamedLibrary(BaseName(rIn[i]))

-----------------------------------------------------------------------------

NoRepeats(q) == \A i, j \in DOMAIN q : q[i] = q[j] => i = j

\* C9: each missing requirement is reported once; with neither the version jar
\* nor the libraries directory present exactly 2 items are reported
C9_MissingItemsOnce ==
    \A n \in DOMAIN vCalls :
        /\ NoRepeats(vCalls[n].result)
        /\ (~Exists(vCalls[n].before, VersionJar) /\ ~IsDir(vCalls[n].before, LibrariesDir))
           => Len(vCalls[n].result) = 2

-----------------------------------------------------------------------------

\* C17: the classpath written to args.txt holds no artifact path more than
\* once (the libraries directory and the version jar lie under CLIENT_DIR in
\* every filesystem of the model)
C17_ClasspathNoRepeats == fs.args.exists => NoRepeats(fs.args.cp)

Reports(result, item) == \E k \in DOMAIN result : result[k] = item

Occurs(q, e) == \E i \in DOMAIN q : q[i] = e

\* the events of thread t's run end with the events of `tail`
EndsWith(q, tail) ==
    /\ Len(q) >= Len(tail)
    /\ SubSeq(q, Len(q) - Len(tail) + 1, Len(q)) = tail

HttpErrorTail == <<"fetch", "http_error", "status", "fetch_failed", "finished">>

\* C12: the step of a launch run in which the fetch fails with an HTTP error
\* status (entered with items missing and no local archive found) ends the
\* run Failed with the download-failure message, and leaves the archive, the
\* installed files, the marker and args.txt as they were; the run has
\* extracted nothing, written no args.txt and spawned nothing
C12_HttpErrorEndsLaunch ==
    [][\A t \in Threads :
          (pc[t] = "l_download" /\ events'[t] = events[t] \o HttpErrorTail)
          => /\ pc'[t] = "done"
             /\ finished'[t] = <<Msg(FALSE, "Download failed", <<>>)>>
             /\ fs'.zip = fs.zip
             /\ fs'.files = fs.files
             /\ fs'.marker = fs.marker
             /\ fs'.args = fs.args
             /\ ~Occurs(events'[t], "extract")
             /\ ~wroteArgs'[t]
             /\ proc'[t] = "none"]_vars

C12_Witness ==
    \E t \in Threads :
        /\ LaunchDone(t)
        /\ EndsWith(events[t], <<"zip_absent">> \o HttpErrorTail)
        /\ ~ZipExists(fs)
        /\ ~fs.args.exists

NotificationCount(q, e) == Cardinality({i \in DOMAIN q : q[i] = e})

\* C13: a background run that has ended has emitted exactly one finished
\* notification, which is the last thing it did or emitted; a run that has not
\* ended has emitted none
C13_FinishedOnceAndLast ==
    \A t \in Threads :
        /\ pc[t] = "done"
           => /\ NotificationCount(events[t], "finished") = 1
              /\ Last(events[t]) = "finished"
              /\ Len(finished[t]) = 1
        /\ pc[t] # "done"
           => /\ ~Occurs(events[t], "finished")
              /\ finished[t] = <<>>

\* C13 on the path where launch_procedure raises
C13_Witness ==
    \E t \in Threads :
        /\ pc[t] = "done"
        /\ EndsWith(events[t], <<"java", "exception", "status", "finished">>)
        /\ finished[t] = <<Msg(FALSE, "UnboundLocalError", <<>>)>>

\* C14: a launch run whose re-check after a restore returned missing items has
\* ended Failed, its finished message names every item of that list, and the
\* run has collected, written and spawned nothing
C14_StillMissingNamesItems ==
    \A t \in Threads :
        (kind[t] = "launch" /\ Occurs(events[t], "recheck") /\ missing[t] # <<>>)
        => /\ pc[t] = "done"
           /\ Len(finished[t]) = 1
           /\ ~finished[t][1].ok
           /\ \A i \in DOMAIN missing[t] : Reports(finished[t][1].items, missing[t][i])
           /\ EndsWith(events[t], <<"recheck", "finished">>)
           /\ ~Occurs(events[t], "collect")
           /\ ~Occurs(events[t], "args")
           /\ ~Occurs(events[t], "spawn")
           /\ ~wroteArgs[t]
           /\ proc[t] = "none"

C14_Witness ==
    \E t \in Threads :
        /\ LaunchDone(t)
        /\ Occurs(events[t], "recheck")
        /\ Reports(finished[t][1].items, MissingItem(LibrariesDir, " (no jars)"))
        /\ Reports(finished[t][1].items, MissingItem(VersionJar, ""))

\* the event that follows position i, "" at the end
Following(q, i) == IF i < Len(q) THEN q[i + 1] ELSE ""

\* C15: with items missing, a launch run that found the local archive only
\* extracts and never fetches; one that did not find it fetches and then
\* extracts; no extraction follows a failed fetch; a failed fetch or
\* extraction is followed by the unsuccessful finished notification alone;
\* and the re-check runs only behind an extraction that did not fail
C15_RestoreStrategy ==
    \A t \in Threads :
        kind[t] = "launch" =>
            LET q == events[t]
            IN  /\ Occurs(q, "zip_exists") => ~Occurs(q, "fetch")
                /\ \A i \in DOMAIN q :
                      /\ q[i] = "zip_exists" =>
                            IF i = Len(q) THEN pc[t] = "l_extract_local"
                            ELSE q[i + 1] = "extract"
                      /\ q[i] = "zip_absent" =>
                            IF i = Len(q) THEN pc[t] = "l_download"
                            ELSE q[i + 1] = "fetch"
                      /\ q[i] = "fetch" => i > 1 /\ q[i - 1] = "zip_absent"
                      /\ q[i] = "extract" =>
                            /\ Occurs(q, "zip_exists") \/ Occurs(q, "fetch")
                            /\ ~Occurs(q, "fetch_failed")
                      /\ q[i] \in {"fetch_failed", "extract_failed"} =>
                            /\ Following(q, i) = "finished"
                            /\ i + 1 = Len(q)
                            /\ pc[t] = "done"
                            /\ ~finished[t][1].ok
                      /\ q[i] = "recheck" =>
                            /\ Occurs(SubSeq(q, 1, i), "extract")
                            /\ ~Occurs(q, "extract_failed")
                /\ (Occurs(q, "extract") /\ ~Occurs(q, "extract_failed")
                    /\ ~Occurs(q, "recheck")) => pc[t] = "l_recheck"

\* C15 on a run that fetched, extracted and re-checked
C15_Witness ==
    \E t \in Threads :
        /\ kind[t] = "launch"
        /\ Occurs(events[t], "zip_absent")
        /\ Occurs(events[t], "fetch")
        /\ Occurs(events[t], "extract")
        /\ Occurs(events[t], "recheck")
        /\ pc[t] = "l_collect"

\* the extraction calls of the harness that found a readable archive whose
\* file members do not lie on one another's paths and have no ".." in their
\* names
PlainArchive ==
    /\ rs.pc # "off"
    /\ rs.zip = "whole"
    /\ \A k \in DOMAIN rs.members :
          rs.members[k] \notin {ZipEntry(<<"swiftdlc">>, FALSE),
                                ZipEntry(<<"..", "guava-19.0.jar">>, FALSE)}

\* C11: an extraction of a readable archive returns success whatever members
\* could not be written, and every file member outside the unwritable ones is
\* at its destination with the archive's content
C11_UnwritableEntriesSkipped ==
    PlainArchive =>
        \A n \in DOMAIN rs.snaps :
            /\ rs.snaps[n].ret
            /\ \A k \in DOMAIN rs.members :
                  (~rs.members[k].dir /\ rs.members[k].name \notin rs.bad)
                  => FileOf(rs.members[k].name, "new") \in rs.snaps[n].files

C11_Witness ==
    /\ PlainArchive
    /\ rs.bad = {VersionJar}
    /\ rs.files0 = {}
    /\ rs.members = <<ZipEntry(VersionJar, FALSE), ZipEntry(<<"guava-19.0.jar">>, FALSE),
                      ZipEntry(LibrariesDir \o <<"asm-9.1.jar">>, FALSE)>>
    /\ Len(rs.snaps) >= 1
    /\ rs.snaps[1].ret
    /\ rs.failed = {VersionJar}
    /\ rs.snaps[1].files = {FileOf(<<"guava-19.0.jar">>, "new"),
                            FileOf(LibrariesDir \o <<"asm-9.1.jar">>, "new")}

\* C16: of two calls of extract_zip_manual in a row the second returns what
\* the first returned and leaves the files, their contents, the directories
\* and the marker as the first left them
C16_ExtractTwiceSame ==
    (rs.pc # "off" /\ rs.plan = <<"extract", "extract">> /\ Len(rs.snaps) = 2)
    => rs.snaps[2] = rs.snaps[1]

C16_Witness ==
    /\ rs.pc = "end"
    /\ rs.plan = <<"extract", "extract">>
    /\ Len(rs.snaps) = 2
    /\ rs.files0 = {FileOf(VersionJar, "old")}
    /\ rs.members = <<ZipEntry(<<"swiftdlc">>, FALSE), ZipEntry(VersionJar, FALSE)>>
    /\ rs.snaps[2].ret
    /\ rs.snaps[2].files = {FileOf(VersionJar, "new")}
    /\ rs.snaps[2].marker = [exists |-> TRUE, text |-> <<"ok">>]

\* C18: the progress values of a restore (the fetch followed by the
\* extraction) are all in 0..100 and never decrease
C18_ProgressInRangeMonotone ==
    (rs.pc # "off" /\ rs.plan = <<"download", "extract">>)
    => \A i \in DOMAIN rs.progress :
          /\ rs.progress[i] \in 0..100
          /\ i > 1 => rs.progress[i - 1] <= rs.progress[i]

\* the input's artifacts that are no guava by the table of names, in order
NonGuavaOf(js) ==
    LET Other(p) == BaseName(p) \notin NamesWithGuavaDash
    IN  SelectSeq(js, Other)

\* C19: with at least one artifact of the guava pattern in the input, the
\* output is the other artifacts in their order and multiplicity followed by
\* one guava artifact of the input, which comes last
C19_OthersThenWinnerLast ==
    (rDone /\ \E i \in DOMAIN rIn : BaseName(rIn[i]) \in NamesWithGuavaDash)
    => /\ Len(rOut) = Len(NonGuavaOf(rIn)) + 1
       /\ SubSeq(rOut, 1, Len(rOut) - 1) = NonGuavaOf(rIn)
       /\ BaseName(Last(rOut)) \in NamesWithGuavaDash
       /\ \E i \in DOMAIN rIn : rIn[i] = Last(rOut)

C19_Witness ==
    /\ rDone
    /\ rIn = <<<<"asm-9.2.jar">>, <<"guava-2.10.jar">>, <<"asm-9.2.jar">>>>
    /\ rOut = <<<<"asm-9.2.jar">>, <<"asm-9.2.jar">>, <<"guava-2.10.jar">>>>

\* the jar files of the verifier harness that lie under the libraries
\* directory, at any depth
LibraryJarsOfHarness ==
    {LibrariesDir \o <<"asm-9.1.jar">>, LibrariesDir \o <<"google", "guava-30.1.1.jar">>}

NoLibrariesItem == MissingItem(LibrariesDir, "")

NoJarsItem == MissingItem(LibrariesDir, " (no jars)")

\* C20: the libraries requirement is reported as missing when the directory is
\* absent, reported with the no-jars item when the directory exists without a
\* jar at any depth, and not reported when a jar lies anywhere beneath it
C20_LibrariesRequirement ==
    \A n \in DOMAIN vCalls :
        LET f == vCalls[n].before
            res == vCalls[n].result
            hasDir == f.root /\ (LibrariesDir \in f.dirs
                                  \/ \E q \in f.files : IsPrefix(LibrariesDir, q))
            hasJar == f.root /\ f.files \cap LibraryJarsOfHarness # {}
        IN  /\ ~hasDir => Reports(res, NoLibrariesItem) /\ ~Reports(res, NoJarsItem)
            /\ (hasDir /\ ~hasJar) => Reports(res, NoJarsItem) /\ ~Reports(res, NoLibrariesItem)
            /\ hasJar => ~Reports(res, NoJarsItem) /\ ~Reports(res, NoLibrariesItem)

C20_Witness ==
    /\ Len(vCalls) >= 1
    /\ vCalls[1].before.files = {LibrariesDir \o <<"google", "guava-30.1.1.jar">>}
    /\ vCalls[1].result = <<MissingItem(VersionJar, ""), MissingItem(VersionJar, "")>>

-----------------------------------------------------------------------------

\* thread t takes the step
Moves(t) == pc'[t] # pc[t]

\* C21: a step of a launch run whose first check found nothing missing is no
\* fetch and no extraction and leaves the archive, the marker and every
\* installed file as they were; args.txt changes only in the step that writes it
C21_CleanCheckFrame ==
    [][\A t \in Threads :
          (/\ Moves(t)
           /\ kind'[t] = "launch"
           /\ Occurs(events'[t], "check")
           /\ ~Occurs(events'[t], "recheck")
           /\ missing'[t] = <<>>)
          => /\ ~Occurs(events'[t], "fetch")
             /\ ~Occurs(events'[t], "extract")
             /\ fs'.zip = fs.zip
             /\ fs'.marker = fs.marker
             /\ fs'.files = fs.files
             /\ fs'.args # fs.args => pc[t] = "l_args"]_vars

C21_Witness ==
    \E t \in Threads :
        /\ LaunchDone(t)
        /\ events[t] = <<"status", "check", "status", "collect", "args", "status", "java",
                         "finished">>
        /\ missing[t] = <<>>
        /\ wroteArgs[t]
        /\ fs.args.exists
        /\ fs.marker
        /\ fs.zip = "full"
        /\ VersionJar \in fs.files

\* the jars of the model's files in the order a walk of the libraries
\* directory meets them, and in the order a walk of the installation root does
LibraryJarsInWalkOrder ==
    <<LibrariesDir \o <<"asm-9.1.jar">>, LibrariesDir \o <<"google", "guava-30.1.1.jar">>>>

RootJarsInWalkOrder ==
    <<<<"guava-19.0.jar">>, LibrariesDir \o <<"asm-9.1.jar">>,
      LibrariesDir \o <<"google", "guava-30.1.1.jar">>, VersionJar>>

\* those of the listed files that filesystem f holds, in the order listed
PresentOf(f, order) ==
    LET Present(q) == f.root /\ q \in f.files
    IN  SelectSeq(order, Present)

\* C23: the artifacts of the list that the collecting step leaves, the guava
\* artifacts aside, are the library jars in walk order, then the version jar
\* if there is one, then the jars of a walk of the installation root; and
\* the step that writes args.txt writes that list as the classpath
C23_CollectionOrder ==
    [][\A t \in Threads :
          /\ (pc[t] = "l_collect" /\ Moves(t))
             => NonGuavaOf(jars'[t])
                  = NonGuavaOf(PresentOf(fs, LibraryJarsInWalkOrder)
                                 \o PresentOf(fs, <<VersionJar>>)
                                 \o PresentOf(fs, RootJarsInWalkOrder))
          /\ (pc[t] = "l_args" /\ Moves(t) /\ wroteArgs'[t])
             => fs'.args.cp = jars[t]]_vars

C23_Witness ==
    /\ fs.args.exists
    /\ fs.args.cp = <<LibrariesDir \o <<"asm-9.1.jar">>, VersionJar,
                      LibrariesDir \o <<"asm-9.1.jar">>, VersionJar,
                      LibrariesDir \o <<"google", "guava-30.1.1.jar">>>>

\* CLIENT_ZIP_PATH holds a file that is no readable archive
UnreadableArchive(f) == f.root /\ f.zip = "corrupt"

\* C27: with an unreadable archive on disk, a launch run that finds required
\* files missing goes to the local extraction and not to the fetch, and its
\* local extraction ends the run Failed; both steps leave the archive and the
\* rest of the filesystem as they were
C27_UnreadableArchiveStays ==
    [][\A t \in Threads :
          (Moves(t) /\ kind[t] = "launch" /\ UnreadableArchive(fs))
          => /\ (pc[t] = "l_check" /\ missing'[t] # <<>>)
                => /\ pc'[t] = "l_extract_local"
                   /\ fs' = fs
             /\ pc[t] = "l_extract_local"
                => /\ pc'[t] = "done"
                   /\ finished'[t] = <<Msg(FALSE, "Extraction from local archive failed", <<>>)>>
                   /\ ~Occurs(events'[t], "fetch")
                   /\ fs' = fs]_vars

\* C27 after a launch whose fetch broke and a second launch
C27_Witness ==
    \E t, u \in Threads :
        /\ LaunchDone(t)
        /\ Occurs(events[t], "stream_error")
        /\ LaunchDone(u)
        /\ finished[u] = <<Msg(FALSE, "Extraction from local archive failed", <<>>)>>
        /\ UnreadableArchive(fs)
        /\ CheckRequiredFiles(fs) # <<>>

ReinstallFailures ==
    {Msg(FALSE, "Download failed", <<>>), Msg(FALSE, "Extraction failed", <<>>)}

LaunchRunning(t) == kind[t] = "launch" /\ pc[t] \notin {"idle", "done"}

\* C26: again and again no launch run is under way, so every launch run that
\* has started, one waiting for the lock among them, comes to its end; a
\* launch run that has ended has emitted a finished notification; and no
\* thread holds the lock before it has taken it or after its run has ended
C26_LaunchTerminates ==
    /\ []<>(\A t \in Threads : ~LaunchRunning(t))
    /\ [](\A t \in Threads :
             /\ (kind[t] = "launch" /\ pc[t] = "done") => finished[t] # <<>>
             /\ pc[t] \in {"idle", "l_lock", "done"} => lock # t)

\* C26 after two launch runs have ended, one of them by the exception of line
\* 886, with the lock free
C26_Witness ==
    \E t, u \in Threads :
        /\ t # u
        /\ LaunchDone(t)
        /\ LaunchDone(u)
        /\ Occurs(events[u], "exception")
        /\ lock = 0

\* C22: a launch run ends with the runtime-not-found failure only when no
\* java executable is discoverable on JAVA_HOME / JDK_HOME or on PATH, a
\* configured path that does not exist notwithstanding; and it has spawned
\* nothing
C22_JavaFailureOnlyWhenUndiscoverable ==
    \A t \in Threads :
        (LaunchDone(t) /\ Last(finished[t]).text = "Java not found")
        => /\ ~env.home
           /\ ~env.which
           /\ proc[t] = "none"

\* C24: args.txt holds exactly eleven lines: -Xmx4096m (4 GB), the
\* native-access option, -cp, the artifact list of the classpath, the main
\* class, and --version, --gameDir, --assetsDir, --assetIndex, --username and
\* --accessToken with their values, whatever was written to it before
C24_ArgsFileLines ==
    fs.args.exists =>
        LET l == fs.args.lines
        IN  /\ Len(l) = 11
            /\ l[1] = [opt |-> "-Xmx", num |-> 4096, text |-> "m", paths |-> <<>>]
            /\ l[2] = [opt |-> "--enable-native-access=ALL-UNNAMED", num |-> 0,
                       text |-> "", paths |-> <<>>]
            /\ l[3] = [opt |-> "-cp", num |-> 0, text |-> "", paths |-> <<>>]
            /\ l[4] = [opt |-> "", num |-> 0, text |-> "", paths |-> fs.args.cp]
            /\ l[5] = [opt |-> "net.minecraft.client.main.Main", num |-> 0,
                       text |-> "", paths |-> <<>>]
            /\ l[6] = [opt |-> "--version", num |-> 0, text |-> "1.16.5", paths |-> <<>>]
            /\ l[7] = [opt |-> "--gameDir", num |-> 0, text |-> "", paths |-> <<<<>>>>]
            /\ l[8] = [opt |-> "--assetsDir", num |-> 0, text |-> "",
                       paths |-> <<<<"swiftdlc", "game", "assets">>>>]
            /\ l[9] = [opt |-> "--assetIndex", num |-> 0, text |-> "1.16", paths |-> <<>>]
            /\ l[10] = [opt |-> "--username", num |-> 0, text |-> "Player", paths |-> <<>>]
            /\ l[11] = [opt |-> "--accessToken", num |-> 0, text |-> "0", paths |-> <<>>]

\* C24 on a second launch that wrote args.txt over the first one's
C24_Witness ==
    /\ \A t \in Threads : LaunchDone(t) /\ wroteArgs[t]
    /\ fs.args.exists
    /\ Len(fs.args.lines) = 11
    /\ fs.args.cp # <<>>

\* C25: when the input holds a guava artifact whose version can be parsed,
\* the guava artifact that the filter keeps is one whose version can be parsed
C25_UnparsableNeverWins ==
    (rDone /\ \E i \in DOMAIN rIn : IsVersionedGuava(rIn[i]))
    => \A k \in DOMAIN rOut :
          BaseName(rOut[k]) \in NamesWithGuavaDash => IsVersionedGuava(rOut[k])

\* C29: every file that an extraction wrote lies in the target directory or
\* beneath it
C29_WritesInsideTarget ==
    rs.pc # "off" =>
        \A r \in rs.files : \A i \in DOMAIN r.path : r.path[i] # ".."

\* C30: when only a Verify has run and it finished with "Verification OK",
\* _check_required_files reports nothing missing on that filesystem
C30_VerifyAgreesWithCheck ==
    \A t \in Threads :
        (/\ runs = 1
         /\ kind[t] = "verify"
         /\ pc[t] = "done"
         /\ finished[t] = <<Msg(TRUE, "Verification OK", <<>>)>>)
        => CheckRequiredFiles(fs) = <<>>

====
